---- MODULE Spec2Model ----
(***************************************************************************)
(* Cricket auction simulator: the auction reducer (useAuction.ts), the     *)
(* auction rules (domain/auctionRules.ts) and the squad validator          *)
(* (domain/squadValidator.ts), modelled as a state machine.                *)
(*                                                                         *)
(* `state` is the AuctionState held by useReducer.  It is a discriminated  *)
(* union: a record whose set of fields depends on `phase`, exactly as the  *)
(* TypeScript variants declare them.  `null` is the empty tuple.           *)
(* `lastAction` is the type of the action most recently dispatched to the  *)
(* reducer (a dispatch log of length one).  `props` are the teams and      *)
(* players the hook is mounted with; they never change.                    *)
(*                                                                         *)
(* The pure functions of the domain layer (squad validator, bid            *)
(* calculator) are also checked on their own: `call` is a call of one of   *)
(* them (function name and arguments) and `result` what it returned, or    *)
(* null while the call has not been made.                                  *)
(*                                                                         *)
(* The page (AuctionPage) renders the hook's state and drives it:          *)
(* `rendered` is the state of the last render, which the callbacks and     *)
(* props of that render have captured; `expiry` tells whether the          *)
(* expiration effect of the last render is still to run; `unrendered`      *)
(* counts the actions dispatched since the last render.                    *)
(***************************************************************************)
EXTENDS Integers, Sequences, FiniteSets, TLC

VARIABLES state, lastAction, props, call, result, rendered, expiry, unrendered

\* The variables of the page the hook is rendered in.
page == <<rendered, expiry, unrendered>>

vars == <<state, lastAction, props, call, result, page>>

null == <<>>

-----------------------------------------------------------------------------
(* Bounds of the model *)

\* Bid amounts offered to placeBid: 15, 20, ... in steps of 5.
MaxBidSteps == 2

-----------------------------------------------------------------------------
(* Program constants: AUCTION_CONSTANTS and DEFAULT_SQUAD_CONSTRAINTS *)

INITIAL_BID_TIME == 60

BID_INCREMENT_MIN == 5

TIME_EXTENSION_ON_BID == 15

MAX_TIME_EXTENSION == 60

PlayerRole == {"batter", "bowler", "all-rounder", "wicket-keeper"}

DEFAULT_SQUAD_CONSTRAINTS ==
  [ minSquadSize       |-> 15,
    maxSquadSize       |-> 25,
    maxOverseasPlayers |-> 8,
    roleConstraints    |->
      [ r \in PlayerRole |->
          CASE r = "batter"        -> [min |-> 3, max |-> 8]
            [] r = "bowler"        -> [min |-> 3, max |-> 8]
            [] r = "all-rounder"   -> [min |-> 2, max |-> 6]
            [] r = "wicket-keeper" -> [min |-> 1, max |-> 3] ] ]

-----------------------------------------------------------------------------
(* The catalog supplied to useAuction({ teams, players }) *)

\* A value of type number | null is null or the one-element tuple <<n>>.
Num(n) == <<n>>

PlayerStats(matches, battingAverage, bowlingAverage, strikeRate, economyRate) ==
  [matches |-> matches, battingAverage |-> battingAverage,
   bowlingAverage |-> bowlingAverage, strikeRate |-> strikeRate,
   economyRate |-> economyRate]

\* A newcomer: no matches, no averages.
NoStats == PlayerStats(0, null, null, null, null)

Player(id, role, nationality, basePrice) ==
  [id |-> id, name |-> id, role |-> role, nationality |-> nationality,
   basePrice |-> basePrice, stats |-> NoStats]

Team(id, budget) == [id |-> id, budget |-> budget]

\* A bidding-war catalog: base prices low enough for several raises in a round,
\* one team that can buy little, two roles and both nationalities.
WarProps ==
  [ teams   |-> << Team("t1", 80), Team("t2", 20) >>,
    players |-> << Player("p1", "wicket-keeper", "domestic", 20),
                   Player("p2", "batter", "overseas", 15) >> ]

\* A squad-limit catalog: four wicket-keepers (the role maximum is 3), one of
\* them overseas, one team that can afford all four at the base price and
\* one that can afford none.
SquadProps ==
  [ teams   |-> << Team("t1", 100), Team("t2", 20) >>,
    players |-> << Player("p1", "wicket-keeper", "domestic", 25),
                   Player("p2", "wicket-keeper", "overseas", 25),
                   Player("p3", "wicket-keeper", "domestic", 25),
                   Player("p4", "wicket-keeper", "domestic", 25) >> ]

\* The props the hook is mounted with.
PropsChoices == {WarProps, SquadProps}

players == props.players

teams == props.teams

TeamIds == {teams[i].id : i \in DOMAIN teams}

\* Amounts a caller passes to placeBid.
BidAmounts == {15 + 5 * k : k \in 0 .. MaxBidSteps}

\* Team ids a caller passes to placeBid: the teams, and one unknown id.
BidTeamIds == TeamIds \cup {"t9"}

-----------------------------------------------------------------------------
(* squadValidator.ts *)

Valid == [isValid |-> TRUE]

Invalid(errors) == [isValid |-> FALSE, errors |-> errors]

ErrorsOf(validation) == IF validation.isValid THEN <<>> ELSE validation.errors

\* new Map(allPlayers.map(p => [p.id, p])).get(id): the last entry with the id.
PlayerById(allPlayers, id) ==
  LET hits == {i \in DOMAIN allPlayers : allPlayers[i].id = id}
  IN  IF hits = {} THEN null
      ELSE allPlayers[CHOOSE i \in hits : \A j \in hits : j <= i]

\* countPlayersByRole(squad, allPlayers)[role] ?? 0
countPlayersByRole(squad, allPlayers, role) ==
  Cardinality({i \in DOMAIN squad :
     LET player == PlayerById(allPlayers, squad[i].playerId)
     IN  player # null /\ player.role = role})

countOverseasPlayers(squad, allPlayers) ==
  Cardinality({i \in DOMAIN squad :
     LET player == PlayerById(allPlayers, squad[i].playerId)
     IN  player # null /\ player.nationality = "overseas"})

\* Mutant of validateBudget: the comparison is inverted, so an unaffordable
\* bid passes.
validateBudget_inverted(teamState, bidAmount) ==
  IF bidAmount < teamState.remainingBudget
  THEN Invalid(<< [code      |-> "INSUFFICIENT_BUDGET",
                   message   |-> "Insufficient budget.",
                   required  |-> bidAmount,
                   available |-> teamState.remainingBudget,
                   shortfall |-> bidAmount - teamState.remainingBudget] >>)
  ELSE Valid

validateBudget(teamState, bidAmount) ==
  IF bidAmount > teamState.remainingBudget
  THEN Invalid(<< [code      |-> "INSUFFICIENT_BUDGET",
                   message   |-> "Insufficient budget. Required: " \o ToString(bidAmount)
                                 \o "L, Available: "
                                 \o ToString(teamState.remainingBudget) \o "L",
                   required  |-> bidAmount,
                   available |-> teamState.remainingBudget,
                   shortfall |-> bidAmount - teamState.remainingBudget] >>)
  ELSE Valid

validateSquadSize(teamState, constraints) ==
  IF Len(teamState.squad) >= constraints.maxSquadSize
  THEN Invalid(<< [code        |-> "SQUAD_FULL",
                   message     |-> "Squad is full. Maximum "
                                   \o ToString(constraints.maxSquadSize)
                                   \o " players allowed.",
                   currentSize |-> Len(teamState.squad),
                   maxSize     |-> constraints.maxSquadSize] >>)
  ELSE Valid

\* Mutant of validateRoleLimits: > instead of >=, one player too many.
validateRoleLimits_offByOne(teamState, newPlayer, allPlayers, constraints) ==
  LET currentCount == countPlayersByRole(teamState.squad, allPlayers, newPlayer.role)
      maxForRole   == constraints.roleConstraints[newPlayer.role].max
  IN  IF currentCount > maxForRole
      THEN Invalid(<< [code         |-> "ROLE_LIMIT_EXCEEDED",
                       message      |-> "Cannot add more " \o newPlayer.role \o "s.",
                       role         |-> newPlayer.role,
                       currentCount |-> currentCount,
                       maxCount     |-> maxForRole] >>)
      ELSE Valid

validateRoleLimits(teamState, newPlayer, allPlayers, constraints) ==
  LET currentCount == countPlayersByRole(teamState.squad, allPlayers, newPlayer.role)
      maxForRole   == constraints.roleConstraints[newPlayer.role].max
  IN  IF currentCount >= maxForRole
      THEN Invalid(<< [code         |-> "ROLE_LIMIT_EXCEEDED",
                       message      |-> "Cannot add more " \o newPlayer.role
                                        \o "s. Maximum " \o ToString(maxForRole)
                                        \o " allowed, currently have "
                                        \o ToString(currentCount) \o ".",
                       role         |-> newPlayer.role,
                       currentCount |-> currentCount,
                       maxCount     |-> maxForRole] >>)
      ELSE Valid

validateOverseasLimits(teamState, newPlayer, allPlayers, constraints) ==
  IF newPlayer.nationality # "overseas"
  THEN Valid
  ELSE LET overseasCount == countOverseasPlayers(teamState.squad, allPlayers)
       IN  IF overseasCount >= constraints.maxOverseasPlayers
           THEN Invalid(<< [code         |-> "OVERSEAS_LIMIT_EXCEEDED",
                            message      |-> "Cannot add more overseas players. Maximum "
                                             \o ToString(constraints.maxOverseasPlayers)
                                             \o " allowed, currently have "
                                             \o ToString(overseasCount) \o ".",
                            currentCount |-> overseasCount,
                            maxCount     |-> constraints.maxOverseasPlayers] >>)
           ELSE Valid

\* Mutant of validatePlayerAcquisition: fail-fast, only the first failing check
\* is reported.
validatePlayerAcquisition_failFast(teamState, player, bidAmount, allPlayers, constraints) ==
  LET errors == ErrorsOf(validateBudget(teamState, bidAmount))
                \o ErrorsOf(validateSquadSize(teamState, constraints))
                \o ErrorsOf(validateRoleLimits(teamState, player, allPlayers, constraints))
                \o ErrorsOf(validateOverseasLimits(teamState, player, allPlayers, constraints))
  IN  IF Len(errors) = 0 THEN Valid ELSE Invalid(<< errors[1] >>)

validatePlayerAcquisition(teamState, player, bidAmount, allPlayers, constraints) ==
  LET errors == ErrorsOf(validateBudget(teamState, bidAmount))
                \o ErrorsOf(validateSquadSize(teamState, constraints))
                \o ErrorsOf(validateRoleLimits(teamState, player, allPlayers, constraints))
                \o ErrorsOf(validateOverseasLimits(teamState, player, allPlayers, constraints))
  IN  IF Len(errors) = 0 THEN Valid ELSE Invalid(errors)

-----------------------------------------------------------------------------
(* squadValidator.ts: the end-of-auction check *)

\* Object.entries(constraints.roleConstraints): insertion order of the literal.
RoleOrder == << "batter", "bowler", "all-rounder", "wicket-keeper" >>

\* Mutant of validateMinimumSquadRequirements: the role minimums are skipped.
validateMinimumSquadRequirements_sizeOnly(teamState, allPlayers, constraints) ==
  IF Len(teamState.squad) < constraints.minSquadSize
  THEN Invalid(<< [code        |-> "SQUAD_FULL",
                   message     |-> "Squad too small.",
                   currentSize |-> Len(teamState.squad),
                   minSize     |-> constraints.minSquadSize] >>)
  ELSE Valid

validateMinimumSquadRequirements(teamState, allPlayers, constraints) ==
  LET sizeErrors ==
        IF Len(teamState.squad) < constraints.minSquadSize
        THEN << [code        |-> "SQUAD_FULL",
                 message     |-> "Squad too small. Minimum "
                                 \o ToString(constraints.minSquadSize)
                                 \o " players required, have "
                                 \o ToString(Len(teamState.squad)) \o ".",
                 currentSize |-> Len(teamState.squad),
                 minSize     |-> constraints.minSquadSize] >>
        ELSE <<>>
      roleError(role) ==
        LET currentCount == countPlayersByRole(teamState.squad, allPlayers, role)
            limits       == constraints.roleConstraints[role]
        IN  IF currentCount < limits.min
            THEN << [code         |-> "ROLE_LIMIT_EXCEEDED",
                     message      |-> "Need at least " \o ToString(limits.min)
                                      \o " " \o role \o "(s), have "
                                      \o ToString(currentCount) \o ".",
                     role         |-> role,
                     currentCount |-> currentCount,
                     minCount     |-> limits.min] >>
            ELSE <<>>
      errors == sizeErrors \o roleError(RoleOrder[1]) \o roleError(RoleOrder[2])
                \o roleError(RoleOrder[3]) \o roleError(RoleOrder[4])
  IN  IF Len(errors) = 0 THEN Valid ELSE Invalid(errors)

-----------------------------------------------------------------------------
(* The bid calculator (types.ts 420-818)                                   *)
(*                                                                         *)
(* The calculator works in floating point.  Every multiplier is a multiple *)
(* of 0.05, so the model keeps multipliers in hundredths and the running   *)
(* estimate in millionths (base price * three multipliers in hundredths);  *)
(* a domestic candidate, which has no overseas factor, is scaled by 100.   *)
(* The arithmetic here is exact; a double differs from it by a relative    *)
(* error of about 1e-16, which can change a comparison or Math.round only  *)
(* when the exact value lies on the bound itself.                          *)

HUNDRED == 100

\* One unit of the running estimate.
UNIT == HUNDRED * HUNDRED * HUNDRED

ReasoningFactor(factor, impact, explanation) ==
  [factor |-> factor, impact |-> impact, explanation |-> explanation]

\* multiplier > 1 ? 'positive' : multiplier < 1 ? 'negative' : 'neutral'
ImpactOf(multiplier) ==
  IF multiplier > HUNDRED THEN "positive"
  ELSE IF multiplier < HUNDRED THEN "negative" ELSE "neutral"

\* In hundredths.
calculateQualityMultiplier(player) ==
  LET stats == player.stats
  IN  HUNDRED
      + (IF stats.matches > 100 THEN 30 ELSE IF stats.matches > 50 THEN 15 ELSE 0)
      + (IF stats.battingAverage # null
         THEN IF stats.battingAverage[1] > 40 THEN 40
              ELSE IF stats.battingAverage[1] > 30 THEN 20 ELSE 0
         ELSE 0)
      + (IF stats.strikeRate # null
         THEN IF stats.strikeRate[1] > 150 THEN 30
              ELSE IF stats.strikeRate[1] > 130 THEN 15 ELSE 0
         ELSE 0)
      + (IF stats.bowlingAverage # null
         THEN IF stats.bowlingAverage[1] < 20 THEN 40
              ELSE IF stats.bowlingAverage[1] < 25 THEN 20 ELSE 0
         ELSE 0)
      + (IF stats.economyRate # null
         THEN IF stats.economyRate[1] < 7 THEN 30
              ELSE IF stats.economyRate[1] < 8 THEN 15 ELSE 0
         ELSE 0)

\* In hundredths.
calculateRoleScarcity(role, teamState, allPlayers) ==
  LET current     == countPlayersByRole(teamState.squad, allPlayers, role)
      constraints == DEFAULT_SQUAD_CONSTRAINTS.roleConstraints[role]
  IN  IF current < constraints.min
      THEN HUNDRED + (constraints.min - current) * 20
      ELSE IF current >= constraints.max THEN 50 ELSE HUNDRED

\* In hundredths.
calculateOverseasMultiplier(teamState, allPlayers) ==
  LET overseasCount  == countOverseasPlayers(teamState.squad, allPlayers)
      slotsRemaining == DEFAULT_SQUAD_CONSTRAINTS.maxOverseasPlayers - overseasCount
  IN  IF slotsRemaining <= 0 THEN 0
      ELSE IF slotsRemaining <= 2 THEN 80 ELSE HUNDRED

\* Mutant of calculateBudgetCap: nothing is reserved for the players still
\* needed.
calculateBudgetCap_noReserve(teamState) ==
  LET playersNeeded == DEFAULT_SQUAD_CONSTRAINTS.minSquadSize - Len(teamState.squad)
  IN  IF playersNeeded <= 0
      THEN teamState.remainingBudget
      ELSE IF teamState.remainingBudget > 20 THEN teamState.remainingBudget ELSE 20

\* In whole units (lakhs).
calculateBudgetCap(teamState) ==
  LET playersNeeded == DEFAULT_SQUAD_CONSTRAINTS.minSquadSize - Len(teamState.squad)
  IN  IF playersNeeded <= 0
      THEN teamState.remainingBudget
      ELSE LET reserveAmount   == IF (playersNeeded - 1) * 20 > 0
                                  THEN (playersNeeded - 1) * 20 ELSE 0
               spendableAmount == teamState.remainingBudget - reserveAmount
           IN  IF spendableAmount > 20 THEN spendableAmount ELSE 20

\* n.toFixed(1) and n.toFixed(2) of a whole number.
ToFixed1(n) == ToString(n) \o ".0"

ToFixed2(n) == ToString(n) \o ".00"

\* highlights.join(', ')
RECURSIVE Join(_)
Join(strings) ==
  IF Len(strings) = 0 THEN ""
  ELSE IF Len(strings) = 1 THEN strings[1]
  ELSE strings[1] \o ", " \o Join(Tail(strings))

getQualityExplanation(player, multiplier) ==
  LET stats == player.stats
      highlights ==
        (IF stats.matches > 100
         THEN << ToString(stats.matches) \o " matches experience" >> ELSE <<>>)
        \o (IF stats.battingAverage # null /\ stats.battingAverage[1] > 30
            THEN << "batting avg " \o ToFixed1(stats.battingAverage[1]) >> ELSE <<>>)
        \o (IF stats.strikeRate # null /\ stats.strikeRate[1] > 130
            THEN << "strike rate " \o ToFixed1(stats.strikeRate[1]) >> ELSE <<>>)
        \o (IF stats.bowlingAverage # null /\ stats.bowlingAverage[1] < 25
            THEN << "bowling avg " \o ToFixed1(stats.bowlingAverage[1]) >> ELSE <<>>)
        \o (IF stats.economyRate # null /\ stats.economyRate[1] < 8
            THEN << "economy " \o ToFixed2(stats.economyRate[1]) >> ELSE <<>>)
      prefix == IF multiplier > 130 THEN "Excellent"
                ELSE IF multiplier > HUNDRED THEN "Good" ELSE "Moderate"
  IN  IF Len(highlights) = 0
      THEN "Average statistics, no premium applied."
      ELSE prefix \o " stats: " \o Join(highlights) \o "."

getScarcityExplanation(role, multiplier, teamState, allPlayers) ==
  LET current     == countPlayersByRole(teamState.squad, allPlayers, role)
      constraints == DEFAULT_SQUAD_CONSTRAINTS.roleConstraints[role]
  IN  IF multiplier > HUNDRED
      THEN "URGENT: Need " \o ToString(constraints.min - current) \o " more "
           \o role \o "(s) to meet minimum requirement of "
           \o ToString(constraints.min) \o "."
      ELSE IF multiplier < HUNDRED
      THEN "Low priority: Already have " \o ToString(current) \o "/"
           \o ToString(constraints.max) \o " " \o role \o "(s)."
      ELSE "Have " \o ToString(current) \o " " \o role
           \o "(s), within normal range (" \o ToString(constraints.min) \o "-"
           \o ToString(constraints.max) \o ")."

getOverseasExplanation(teamState, allPlayers, multiplier) ==
  LET overseasCount == countOverseasPlayers(teamState.squad, allPlayers)
      maxOverseas   == DEFAULT_SQUAD_CONSTRAINTS.maxOverseasPlayers
      remaining     == maxOverseas - overseasCount
  IN  IF remaining <= 0
      THEN "Cannot buy: All " \o ToString(maxOverseas) \o " overseas slots used."
      ELSE IF remaining <= 2
      THEN "Caution: Only " \o ToString(remaining)
           \o " overseas slot(s) remaining. Conserve for high-value players."
      ELSE ToString(remaining) \o " overseas slots available."

CountImpact(reasoning, impact) ==
  Cardinality({i \in DOMAIN reasoning : reasoning[i].impact = impact})

\* Mutant of calculateConfidence: a single negative factor already gives low.
calculateConfidence_oneNegative(reasoning) ==
  LET positives == CountImpact(reasoning, "positive")
      negatives == CountImpact(reasoning, "negative")
  IN  IF negatives >= 1 THEN "low"
      ELSE IF positives >= 2 /\ negatives = 0 THEN "high"
      ELSE "medium"

calculateConfidence(reasoning) ==
  LET positives == CountImpact(reasoning, "positive")
      negatives == CountImpact(reasoning, "negative")
  IN  IF negatives >= 2 THEN "low"
      ELSE IF positives >= 2 /\ negatives = 0 THEN "high"
      ELSE "medium"

\* Math.round of an estimate held in millionths: halves round up.
MathRound(estimate) == (2 * estimate + UNIT) \div (2 * UNIT)

calculateBidRecommendation(player, teamState, allPlayers, currentBid) ==
  LET qualityMultiplier  == calculateQualityMultiplier(player)
      qualityReason      ==
        ReasoningFactor("Player Quality", ImpactOf(qualityMultiplier),
                        getQualityExplanation(player, qualityMultiplier))
      scarcityMultiplier == calculateRoleScarcity(player.role, teamState, allPlayers)
      scarcityReason     ==
        ReasoningFactor("Role Scarcity", ImpactOf(scarcityMultiplier),
                        getScarcityExplanation(player.role, scarcityMultiplier,
                                               teamState, allPlayers))
      scarcityAdjustedBid == player.basePrice * qualityMultiplier * scarcityMultiplier
      isOverseas         == player.nationality = "overseas"
      overseasMultiplier == calculateOverseasMultiplier(teamState, allPlayers)
      overseasReasons    ==
        IF isOverseas
        THEN << ReasoningFactor("Overseas Slot", ImpactOf(overseasMultiplier),
                                getOverseasExplanation(teamState, allPlayers,
                                                       overseasMultiplier)) >>
        ELSE <<>>
      originalRecommendation ==
        IF isOverseas THEN scarcityAdjustedBid * overseasMultiplier
        ELSE scarcityAdjustedBid * HUNDRED
      budgetCap          == calculateBudgetCap(teamState)
      cappedBid          == IF originalRecommendation < budgetCap * UNIT
                            THEN originalRecommendation ELSE budgetCap * UNIT
      budgetReason       ==
        ReasoningFactor("Budget Constraint",
                        IF cappedBid < originalRecommendation
                        THEN "negative" ELSE "neutral",
                        "Budget allows up to " \o ToString(budgetCap) \o "L. "
                        \o (IF cappedBid < originalRecommendation
                            THEN "Recommendation capped by budget."
                            ELSE "No budget constraint hit."))
      beaten             == currentBid # null /\ cappedBid <= currentBid[1] * UNIT
      recommendedBid     == IF beaten
                            THEN (currentBid[1] + 5) * UNIT ELSE cappedBid
      currentBidReasons  ==
        IF beaten
        THEN << ReasoningFactor("Current Bid", "neutral",
                                "Adjusted to beat current bid of "
                                \o ToString(currentBid[1]) \o "L") >>
        ELSE <<>>
      reasoning          == << qualityReason, scarcityReason >> \o overseasReasons
                            \o << budgetReason >> \o currentBidReasons
  IN  [ recommendedMaxBid |-> MathRound(recommendedBid),
        confidence        |-> calculateConfidence(reasoning),
        reasoning         |-> reasoning ]

\* Mutant of shouldConsiderPlayer: the role limit is not checked.
shouldConsiderPlayer_noRoleCheck(player, teamState, allPlayers) ==
  IF /\ player.nationality = "overseas"
     /\ countOverseasPlayers(teamState.squad, allPlayers)
           >= DEFAULT_SQUAD_CONSTRAINTS.maxOverseasPlayers
  THEN [shouldBid |-> FALSE, reason |-> "No overseas slots available"]
  ELSE IF teamState.remainingBudget < player.basePrice
  THEN [shouldBid |-> FALSE, reason |-> "Insufficient budget for base price"]
  ELSE [shouldBid |-> TRUE, reason |-> "Player is a valid target"]

\* Mutant of shouldConsiderPlayer: the role limit is checked before the
\* overseas limit.
shouldConsiderPlayer_roleFirst(player, teamState, allPlayers) ==
  IF countPlayersByRole(teamState.squad, allPlayers, player.role)
        >= DEFAULT_SQUAD_CONSTRAINTS.roleConstraints[player.role].max
  THEN [shouldBid |-> FALSE, reason |-> "Already have maximum " \o player.role \o "s"]
  ELSE IF /\ player.nationality = "overseas"
          /\ countOverseasPlayers(teamState.squad, allPlayers)
                >= DEFAULT_SQUAD_CONSTRAINTS.maxOverseasPlayers
  THEN [shouldBid |-> FALSE, reason |-> "No overseas slots available"]
  ELSE IF teamState.remainingBudget < player.basePrice
  THEN [shouldBid |-> FALSE, reason |-> "Insufficient budget for base price"]
  ELSE [shouldBid |-> TRUE, reason |-> "Player is a valid target"]

shouldConsiderPlayer(player, teamState, allPlayers) ==
  IF /\ player.nationality = "overseas"
     /\ countOverseasPlayers(teamState.squad, allPlayers)
           >= DEFAULT_SQUAD_CONSTRAINTS.maxOverseasPlayers
  THEN [shouldBid |-> FALSE, reason |-> "No overseas slots available"]
  ELSE IF countPlayersByRole(teamState.squad, allPlayers, player.role)
             >= DEFAULT_SQUAD_CONSTRAINTS.roleConstraints[player.role].max
  THEN [shouldBid |-> FALSE, reason |-> "Already have maximum " \o player.role \o "s"]
  ELSE IF teamState.remainingBudget < player.basePrice
  THEN [shouldBid |-> FALSE, reason |-> "Insufficient budget for base price"]
  ELSE [shouldBid |-> TRUE, reason |-> "Player is a valid target"]

-----------------------------------------------------------------------------
(* auctionRules.ts *)

\* teams.find(t => t.teamId === teamId): the first match, or null (undefined).
getTeamState(teamStates, teamId) ==
  LET hits == {i \in DOMAIN teamStates : teamStates[i].teamId = teamId}
  IN  IF hits = {} THEN null
      ELSE teamStates[CHOOSE i \in hits : \A j \in hits : i <= j]

\* Mutant of getMinimumValidBid: the increment is not added to the current bid.
getMinimumValidBid_noIncrement(s) ==
  IF s.currentBid = null
  THEN s.currentPlayer.basePrice
  ELSE s.currentBid.amount

getMinimumValidBid(s) ==
  IF s.currentBid = null
  THEN s.currentPlayer.basePrice
  ELSE s.currentBid.amount + BID_INCREMENT_MIN

\* Mutant of validateBid: the minimum-bid rule is skipped.
validateBid_noMinimum(s, teamId, bidAmount, allPlayers) ==
  LET teamState == getTeamState(s.teams, teamId)
  IN  IF teamState = null
      THEN Invalid(<< [code    |-> "NOT_YOUR_TURN",
                       message |-> "Team not found in auction.",
                       teamId  |-> teamId] >>)
      ELSE validatePlayerAcquisition(teamState, s.currentPlayer, bidAmount,
                                     allPlayers, DEFAULT_SQUAD_CONSTRAINTS)

validateBid(s, teamId, bidAmount, allPlayers) ==
  LET teamState   == getTeamState(s.teams, teamId)
      minValidBid == getMinimumValidBid(s)
  IN  IF teamState = null
      THEN Invalid(<< [code    |-> "NOT_YOUR_TURN",
                       message |-> "Team not found in auction.",
                       teamId  |-> teamId] >>)
      ELSE IF bidAmount < minValidBid
      THEN Invalid(<< [code            |-> "BID_TOO_LOW",
                       message         |-> "Bid must be at least " \o ToString(minValidBid)
                                           \o "L. Minimum increment is "
                                           \o ToString(BID_INCREMENT_MIN) \o "L.",
                       bidAmount       |-> bidAmount,
                       minimumRequired |-> minValidBid,
                       increment       |-> BID_INCREMENT_MIN] >>)
      ELSE validatePlayerAcquisition(teamState, s.currentPlayer, bidAmount,
                                     allPlayers, DEFAULT_SQUAD_CONSTRAINTS)

\* Mutant of calculateTimeAfterBid: the cap is missing.
calculateTimeAfterBid_uncapped(currentTime) ==
  currentTime + TIME_EXTENSION_ON_BID

calculateTimeAfterBid(currentTime) ==
  LET extended == currentTime + TIME_EXTENSION_ON_BID
  IN  IF extended < MAX_TIME_EXTENSION THEN extended ELSE MAX_TIME_EXTENSION

\* Mutant of finalizePlayerPurchase: the price is not deducted from the budget.
finalizePlayerPurchase_notDeducted(teamState, playerId, purchasePrice) ==
  [ teamId          |-> teamState.teamId,
    remainingBudget |-> teamState.remainingBudget,
    squad           |-> Append(teamState.squad,
                               [playerId |-> playerId, purchasePrice |-> purchasePrice]) ]

finalizePlayerPurchase(teamState, playerId, purchasePrice) ==
  [teamState EXCEPT
     !.remainingBudget = teamState.remainingBudget - purchasePrice,
     !.squad = Append(teamState.squad,
                      [playerId |-> playerId, purchasePrice |-> purchasePrice])]

\* Mutant of updateTeamsAfterSale: the purchase is applied to every team.
updateTeamsAfterSale_everyTeam(teamStates, winningTeamId, playerId, purchasePrice) ==
  [i \in DOMAIN teamStates |->
     finalizePlayerPurchase(teamStates[i], playerId, purchasePrice)]

updateTeamsAfterSale(teamStates, winningTeamId, playerId, purchasePrice) ==
  [i \in DOMAIN teamStates |->
     IF teamStates[i].teamId = winningTeamId
     THEN finalizePlayerPurchase(teamStates[i], playerId, purchasePrice)
     ELSE teamStates[i]]

-----------------------------------------------------------------------------
(* useAuction.ts: the reducer *)

Message(text) == [text |-> text]

StartBiddingAction(player) == [type |-> "START_BIDDING", player |-> player]

PlaceBidAction(teamId, amount) ==
  [type |-> "PLACE_BID", teamId |-> teamId, amount |-> amount]

InvalidBidAction(reason) == [type |-> "INVALID_BID", reason |-> reason]

TimerTickAction == [type |-> "TIMER_TICK"]

TimeExpiredAction == [type |-> "TIME_EXPIRED"]

PlayerSoldAction == [type |-> "PLAYER_SOLD"]

PlayerUnsoldAction == [type |-> "PLAYER_UNSOLD"]

ResetToIdleAction == [type |-> "RESET_TO_IDLE"]

\* Mutant of ReduceStartBidding: the idle guard is missing.
ReduceStartBidding_unguarded(s, action) ==
  [ phase              |-> "bidding",
    currentPlayer      |-> action.player,
    currentBid         |-> null,
    timeRemaining      |-> INITIAL_BID_TIME,
    completedPlayerIds |-> s.completedPlayerIds,
    teams              |-> s.teams,
    message            |-> Message("Bidding started for " \o action.player.name) ]

\* Mutant of ReduceStartBidding: the round opens with the bid extension (15)
\* on the clock instead of the initial window.
ReduceStartBidding_shortClock(s, action) ==
  IF s.phase # "idle"
  THEN s
  ELSE [ phase              |-> "bidding",
         currentPlayer      |-> action.player,
         currentBid         |-> null,
         timeRemaining      |-> TIME_EXTENSION_ON_BID,
         completedPlayerIds |-> s.completedPlayerIds,
         teams              |-> s.teams,
         message            |-> Message("Bidding started for " \o action.player.name) ]

\* case 'START_BIDDING'
ReduceStartBidding(s, action) ==
  IF s.phase # "idle"
  THEN s
  ELSE [ phase              |-> "bidding",
         currentPlayer      |-> action.player,
         currentBid         |-> null,
         timeRemaining      |-> INITIAL_BID_TIME,
         completedPlayerIds |-> s.completedPlayerIds,
         teams              |-> s.teams,
         message            |-> Message("Bidding started for " \o action.player.name) ]

\* case 'PLACE_BID'
ReducePlaceBid(s, action) ==
  IF s.phase # "bidding"
  THEN s
  ELSE [s EXCEPT
          !.currentBid    = [teamId |-> action.teamId, amount |-> action.amount],
          !.timeRemaining = calculateTimeAfterBid(s.timeRemaining),
          !.message       = Message(action.teamId \o " bids "
                                    \o ToString(action.amount) \o "L")]

\* case 'INVALID_BID'
ReduceInvalidBid(s, action) ==
  IF s.phase # "bidding"
  THEN s
  ELSE [s EXCEPT !.message = Message("Invalid bid: " \o action.reason)]

\* Mutant of ReduceTimerTick: reaching 0 ends the round at once.
ReduceTimerTick_endsRound(s) ==
  IF s.phase # "bidding"
  THEN s
  ELSE LET newTime == s.timeRemaining - 1
       IN  IF newTime <= 0
           THEN IF s.currentBid # null
                THEN [ phase              |-> "sold",
                       soldPlayer         |-> s.currentPlayer,
                       winningBid         |-> s.currentBid,
                       completedPlayerIds |-> Append(s.completedPlayerIds,
                                                     s.currentPlayer.id),
                       teams              |-> s.teams,
                       message            |-> null ]
                ELSE [ phase              |-> "unsold",
                       unsoldPlayer       |-> s.currentPlayer,
                       completedPlayerIds |-> Append(s.completedPlayerIds,
                                                     s.currentPlayer.id),
                       teams              |-> s.teams,
                       message            |-> null ]
           ELSE [s EXCEPT !.timeRemaining = newTime]

\* case 'TIMER_TICK'
ReduceTimerTick(s) ==
  IF s.phase # "bidding"
  THEN s
  ELSE LET newTime == s.timeRemaining - 1
       IN  IF newTime <= 0
           THEN [s EXCEPT !.timeRemaining = 0]
           ELSE [s EXCEPT !.timeRemaining = newTime]

\* The sold state built by both TIME_EXPIRED and PLAYER_SOLD.
SoldState(s) ==
  [ phase              |-> "sold",
    soldPlayer         |-> s.currentPlayer,
    winningBid         |-> s.currentBid,
    completedPlayerIds |-> Append(s.completedPlayerIds, s.currentPlayer.id),
    teams              |-> updateTeamsAfterSale(s.teams, s.currentBid.teamId,
                                                s.currentPlayer.id, s.currentBid.amount),
    message            |-> Message("SOLD! " \o s.currentPlayer.name \o " to "
                                   \o s.currentBid.teamId \o " for "
                                   \o ToString(s.currentBid.amount) \o "L") ]

\* The unsold state built by both TIME_EXPIRED (no bid) and PLAYER_UNSOLD.
UnsoldState(s, text) ==
  [ phase              |-> "unsold",
    unsoldPlayer       |-> s.currentPlayer,
    completedPlayerIds |-> Append(s.completedPlayerIds, s.currentPlayer.id),
    teams              |-> s.teams,
    message            |-> Message("UNSOLD! " \o s.currentPlayer.name \o text) ]

\* case 'TIME_EXPIRED'
ReduceTimeExpired(s) ==
  IF s.phase # "bidding"
  THEN s
  ELSE IF s.currentBid # null
  THEN SoldState(s)
  ELSE UnsoldState(s, " received no bids")

\* Mutant of ReducePlayerSold: handled exactly like TIME_EXPIRED.
ReducePlayerSold_asExpiry(s) == ReduceTimeExpired(s)

\* case 'PLAYER_SOLD'
ReducePlayerSold(s) ==
  IF s.phase # "bidding" \/ s.currentBid = null
  THEN s
  ELSE SoldState(s)

\* Mutant of ReducePlayerUnsold: the player id is not recorded as completed.
ReducePlayerUnsold_notRecorded(s) ==
  IF s.phase # "bidding"
  THEN s
  ELSE [ phase              |-> "unsold",
         unsoldPlayer       |-> s.currentPlayer,
         completedPlayerIds |-> s.completedPlayerIds,
         teams              |-> s.teams,
         message            |-> Message("UNSOLD! " \o s.currentPlayer.name \o " - passed") ]

\* case 'PLAYER_UNSOLD'
ReducePlayerUnsold(s) ==
  IF s.phase # "bidding"
  THEN s
  ELSE UnsoldState(s, " - passed")

\* case 'RESET_TO_IDLE'
ReduceResetToIdle(s) ==
  [ phase              |-> "idle",
    completedPlayerIds |-> s.completedPlayerIds,
    teams              |-> s.teams,
    message            |-> null ]

auctionReducer(s, action) ==
  CASE action.type = "START_BIDDING" -> ReduceStartBidding(s, action)
    [] action.type = "PLACE_BID"     -> ReducePlaceBid(s, action)
    [] action.type = "INVALID_BID"   -> ReduceInvalidBid(s, action)
    [] action.type = "TIMER_TICK"    -> ReduceTimerTick(s)
    [] action.type = "TIME_EXPIRED"  -> ReduceTimeExpired(s)
    [] action.type = "PLAYER_SOLD"   -> ReducePlayerSold(s)
    [] action.type = "PLAYER_UNSOLD" -> ReducePlayerUnsold(s)
    [] action.type = "RESET_TO_IDLE" -> ReduceResetToIdle(s)
    [] OTHER                         -> s

createInitialState(teamList) ==
  [ phase              |-> "idle",
    completedPlayerIds |-> <<>>,
    teams              |-> [i \in DOMAIN teamList |->
                              [teamId          |-> teamList[i].id,
                               remainingBudget |-> teamList[i].budget,
                               squad           |-> <<>>]],
    message            |-> Message("Welcome to the auction! Select a player to begin.") ]

-----------------------------------------------------------------------------
(* useAuction.ts: the hook's action creators and queries *)

\* Mutant of placeBid: the result of validateBid is ignored.
placeBid_unvalidated(seen, teamId, amount) ==
  IF seen.phase # "bidding"
  THEN InvalidBidAction("Auction not active")
  ELSE PlaceBidAction(teamId, amount)

\* The action placeBid dispatches, given the state captured in its closure.
placeBid(seen, teamId, amount) ==
  IF seen.phase # "bidding"
  THEN InvalidBidAction("Auction not active")
  ELSE LET validation == validateBid(seen, teamId, amount, players)
       IN  IF ~validation.isValid
           THEN InvalidBidAction(validation.errors[1].message)
           ELSE PlaceBidAction(teamId, amount)

\* getMinBid(): null outside bidding
getMinBid(s) ==
  IF s.phase # "bidding" THEN null ELSE getMinimumValidBid(s)

\* players.filter(p => !state.completedPlayerIds.includes(p.id))
remainingPlayers(s) ==
  SelectSeq(players,
            LAMBDA p : \A i \in DOMAIN s.completedPlayerIds :
                          s.completedPlayerIds[i] # p.id)

\* The players a caller hands to startBidding: players are put up in catalog
\* order, so the next one is the first that has not completed a round.
PickablePlayers(s) ==
  LET rest == remainingPlayers(s)
  IN  IF rest = <<>> THEN {} ELSE {Head(rest)}

-----------------------------------------------------------------------------
(* The state machine: one action per action creator of the hook, plus the  *)
(* PLAYER_SOLD action the reducer accepts.  Every call sees the state the  *)
(* previous call produced.                                                 *)

Init ==
  /\ props \in PropsChoices
  /\ state = createInitialState(props.teams)
  /\ lastAction = "NONE"
  /\ call = null
  /\ result = null
  /\ rendered = state
  /\ expiry = FALSE
  /\ unrendered = 0

\* startBidding(player)
StartBidding ==
  \E p \in PickablePlayers(state) :
     /\ state' = auctionReducer(state, StartBiddingAction(p))
     /\ lastAction' = "START_BIDDING"
     /\ UNCHANGED <<props, call, result, page>>

\* placeBid(teamId, amount): dispatches PLACE_BID or INVALID_BID
PlaceBid ==
  \E teamId \in BidTeamIds, amount \in BidAmounts :
     LET action == placeBid(state, teamId, amount)
     IN  /\ state' = auctionReducer(state, action)
         /\ lastAction' = action.type
         /\ UNCHANGED <<props, call, result, page>>

\* tick()
Tick ==
  /\ state' = auctionReducer(state, TimerTickAction)
  /\ lastAction' = "TIMER_TICK"
  /\ UNCHANGED <<props, call, result, page>>

\* handleTimeExpired()
HandleTimeExpired ==
  /\ state' = auctionReducer(state, TimeExpiredAction)
  /\ lastAction' = "TIME_EXPIRED"
  /\ UNCHANGED <<props, call, result, page>>

\* dispatch({ type: 'PLAYER_SOLD' })
PlayerSold ==
  /\ state' = auctionReducer(state, PlayerSoldAction)
  /\ lastAction' = "PLAYER_SOLD"
  /\ UNCHANGED <<props, call, result, page>>

\* passPlayer()
PassPlayer ==
  /\ state' = auctionReducer(state, PlayerUnsoldAction)
  /\ lastAction' = "PLAYER_UNSOLD"
  /\ UNCHANGED <<props, call, result, page>>

\* resetToIdle()
ResetToIdle ==
  /\ state' = auctionReducer(state, ResetToIdleAction)
  /\ lastAction' = "RESET_TO_IDLE"
  /\ UNCHANGED <<props, call, result, page>>

Next ==
  \/ StartBidding
  \/ PlaceBid
  \/ Tick
  \/ HandleTimeExpired
  \/ PlayerSold
  \/ PassPlayer
  \/ ResetToIdle

Spec == Init /\ [][Next]_vars

-----------------------------------------------------------------------------
(* The hook called with every argument its signature admits: startBidding  *)
(* takes any player of the catalog, whether or not the player has already  *)
(* completed a round.                                                      *)

\* Rounds started in one auction.
MaxRounds == 2

InitEvents ==
  /\ props = WarProps
  /\ state = createInitialState(props.teams)
  /\ lastAction = "NONE"
  /\ call = null
  /\ result = null
  /\ rendered = state
  /\ expiry = FALSE
  /\ unrendered = 0

\* startBidding(player), for any player of the catalog
StartBiddingAny ==
  \E i \in DOMAIN players :
     /\ Len(state.completedPlayerIds) < MaxRounds
     /\ state' = auctionReducer(state, StartBiddingAction(players[i]))
     /\ lastAction' = "START_BIDDING"
     /\ UNCHANGED <<props, call, result, page>>

NextEvents ==
  \/ StartBiddingAny
  \/ PlaceBid
  \/ Tick
  \/ HandleTimeExpired
  \/ PlayerSold
  \/ PassPlayer
  \/ ResetToIdle

SpecEvents == InitEvents /\ [][NextEvents]_vars

-----------------------------------------------------------------------------
(* The page: AuctionPage renders useAuction's state, useAuctionTimer drives *)
(* the countdown, and the user acts through the callbacks of the last      *)
(* render.  dispatch queues an action and the reducer runs the queue in    *)
(* order, so `state` is the state with every dispatched action applied;    *)
(* a callback created by a render keeps seeing that render's state until   *)
(* the next render.                                                        *)

\* Actions dispatched by the user and the interval between two renders.
MaxUnrendered == 2

\* Two players on offer to two teams that can raise each other twice.
PageProps ==
  [ teams   |-> << Team("t1", 25), Team("t2", 20) >>,
    players |-> << Player("p1", "wicket-keeper", "domestic", 15),
                   Player("p2", "batter", "overseas", 15) >> ]

InitPage ==
  /\ props = PageProps
  /\ state = createInitialState(props.teams)
  /\ lastAction = "NONE"
  /\ call = null
  /\ result = null
  /\ rendered = state
  /\ expiry = FALSE
  /\ unrendered = 0

\* canTeamAfford(teamId, amount), on the state of the render
canTeamAfford(s, teamId, amount) ==
  LET team == getTeamState(s.teams, teamId)
  IN  IF team # null THEN team.remainingBudget >= amount ELSE FALSE

\* BidControls.handleBid with the props of the render: the action dispatched,
\* or null when the bid is turned away with an error shown in the form.
\* minimumBid = queries.getMinBid() ?? state.currentPlayer.basePrice, where
\* getMinBid() is null exactly outside bidding.
handleBid(s, selectedTeamId, amount) ==
  LET minimumBid == IF s.phase = "bidding" THEN getMinBid(s)
                    ELSE s.currentPlayer.basePrice
  IN  IF amount < minimumBid THEN null
      ELSE IF ~canTeamAfford(s, selectedTeamId, amount) THEN null
      ELSE placeBid(s, selectedTeamId, amount)

\* The status AuctionTable gives a player: a card is clickable when available.
PlayerStatus(s, player) ==
  IF \E i \in DOMAIN s.teams : \E j \in DOMAIN s.teams[i].squad :
        s.teams[i].squad[j].playerId = player.id
  THEN "sold"
  ELSE IF \E i \in DOMAIN s.completedPlayerIds : s.completedPlayerIds[i] = player.id
  THEN "unsold"
  ELSE "available"

\* dispatch(action) from a callback or an effect
Dispatch(action) ==
  /\ state' = auctionReducer(state, action)
  /\ lastAction' = action.type
  /\ unrendered' = unrendered + 1
  /\ UNCHANGED <<props, call, result, rendered>>

\* A render of AuctionPage.  The expiration effect of useAuctionTimer has the
\* dependencies [isRunning, timeRemaining]; it runs after the render when
\* they changed, and calls onExpired when isRunning && timeRemaining === 0.
\* The effects of a render run before the next render.
Render ==
  /\ unrendered > 0
  /\ ~expiry
  /\ rendered' = state
  /\ expiry' = /\ state.phase = "bidding"
               /\ state.timeRemaining = 0
               /\ ~(rendered.phase = "bidding" /\ rendered.timeRemaining = 0)
  /\ unrendered' = 0
  /\ UNCHANGED <<state, lastAction, props, call, result>>

\* The expiration effect: onExpiredRef.current() = handleTimeExpired()
ExpirationEffect ==
  /\ expiry
  /\ expiry' = FALSE
  /\ Dispatch(TimeExpiredAction)

\* The interval callback: onTickRef.current() = tick().  The interval exists
\* while the rendered phase is bidding.
IntervalTick ==
  /\ rendered.phase = "bidding"
  /\ unrendered < MaxUnrendered
  /\ UNCHANGED expiry
  /\ Dispatch(TimerTickAction)

\* A click on an available player card: handleSelectPlayer
SelectPlayer ==
  \E i \in DOMAIN players :
     /\ PlayerStatus(rendered, players[i]) = "available"
     /\ rendered.phase = "idle"
     /\ unrendered < MaxUnrendered
     /\ UNCHANGED expiry
     /\ Dispatch(StartBiddingAction(players[i]))

\* A bid submitted in BidControls, which is rendered while the phase is bidding
SubmitBid ==
  \E teamId \in TeamIds, amount \in BidAmounts :
     /\ rendered.phase = "bidding"
     /\ unrendered < MaxUnrendered
     /\ handleBid(rendered, teamId, amount) # null
     /\ UNCHANGED expiry
     /\ Dispatch(handleBid(rendered, teamId, amount))

\* The Pass button of BidControls: passPlayer()
ClickPass ==
  /\ rendered.phase = "bidding"
  /\ unrendered < MaxUnrendered
  /\ UNCHANGED expiry
  /\ Dispatch(PlayerUnsoldAction)

\* The Next Player button of the result panel: handleNextPlayer
ClickNextPlayer ==
  /\ rendered.phase \in {"sold", "unsold"}
  /\ unrendered < MaxUnrendered
  /\ UNCHANGED expiry
  /\ Dispatch(ResetToIdleAction)

NextPage ==
  \/ Render
  \/ ExpirationEffect
  \/ IntervalTick
  \/ SelectPlayer
  \/ SubmitBid
  \/ ClickPass
  \/ ClickNextPlayer

SpecPage == InitPage /\ [][NextPage]_vars

-----------------------------------------------------------------------------
(* Calls of the domain functions: the arguments they are checked on *)

\* Squads of 0 .. MaxSquadLen players (maxSquadSize is 25).
MaxSquadLen == 25

\* Reasoning lists of 0 .. MaxReasoning factors (a recommendation has at most 5).
MaxReasoning == 5

\* A catalog large enough to fill a squad: 13 batters (9 overseas), 4
\* wicket-keepers (1 overseas), 9 bowlers and 7 all-rounders.  Base prices are
\* 40 and 80: with them no estimate the calculator forms on these calls lies
\* on a rounding tie or on a bound it is compared with, so its floating-point
\* comparisons and Math.round agree with the exact arithmetic used here.
DomainCatalog ==
  [i \in 1 .. 8 |-> Player("b" \o ToString(i), "batter", "overseas", 40)]
  \o [i \in 1 .. 4 |-> Player("b" \o ToString(i + 8), "batter", "domestic", 40)]
  \o << Player("b13", "batter", "overseas", 80) >>
  \o [i \in 1 .. 3 |-> Player("w" \o ToString(i), "wicket-keeper", "domestic", 40)]
  \o << Player("w4", "wicket-keeper", "overseas", 40) >>
  \o [i \in 1 .. 9 |-> Player("o" \o ToString(i), "bowler", "domestic", 40)]
  \o [i \in 1 .. 7 |-> Player("a" \o ToString(i), "all-rounder", "domestic", 40)]

DomainProps == [teams |-> <<>>, players |-> DomainCatalog]

\* Purchase orders.  RosterA buys the eight overseas batters first, then the
\* wicket-keepers, bowlers and all-rounders up to every role maximum.
RosterA ==
  << "b1", "b2", "b3", "b4", "b5", "b6", "b7", "b8", "w1", "w2", "w3",
     "o1", "o2", "o3", "o4", "o5", "o6", "o7", "o8",
     "a1", "a2", "a3", "a4", "a5", "a6", "b9", "b10" >>

\* RosterB meets every role minimum with its first nine purchases and the
\* minimum squad size with fifteen.
RosterB ==
  << "w1", "b9", "b10", "b11", "o1", "o2", "o3", "a1", "a2",
     "b1", "b2", "o4", "o5", "a3", "w2",
     "o6", "o7", "o8", "a4", "a5", "a6", "w3", "b3", "b4", "b5", "b6", "b7" >>

SquadOf(roster, n) ==
  [i \in 1 .. n |-> [playerId |-> roster[i], purchasePrice |-> 20]]

DomainSquads == {SquadOf(roster, n) : roster \in {RosterA, RosterB}, n \in 0 .. MaxSquadLen}

DomainTeamState(budget, squad) ==
  [teamId |-> "t1", remainingBudget |-> budget, squad |-> squad]

\* Players on offer: none of them is in a roster.
CandidateIds == {"b12", "b13", "w4", "o9", "a7"}

Candidates == {PlayerById(DomainCatalog, id) : id \in CandidateIds}

\* Statistics earning different bonuses: either experience bonus, each batting
\* bonus (none, +0.2, +0.4), and none, one or all of the other bonuses.
DomainStats ==
  { PlayerStats(matches, battingAverage, rest[1], rest[2], rest[3]) :
      matches \in {60, 120},
      battingAverage \in {null, Num(25), Num(35), Num(45)},
      rest \in { <<null, null, null>>,
                 <<null, Num(140), null>>,
                 <<Num(18), Num(160), Num(7)>> } }

WithStats(player, stats) == [player EXCEPT !.stats = stats]

ValidateCalls ==
  { [fn |-> "validatePlayerAcquisition", teamState |-> DomainTeamState(budget, squad),
     player |-> player, bidAmount |-> bidAmount] :
      budget \in {0, 100, 400}, squad \in DomainSquads,
      player \in Candidates, bidAmount \in {20, 150} }

MinimumCalls ==
  { [fn |-> "validateMinimumSquadRequirements",
     teamState |-> DomainTeamState(100, squad)] : squad \in DomainSquads }

RecommendCalls ==
  { [fn |-> "calculateBidRecommendation", player |-> WithStats(player, stats),
     teamState |-> DomainTeamState(budget, squad), currentBid |-> currentBid] :
      player \in Candidates, stats \in DomainStats,
      budget \in {60, 400}, squad \in DomainSquads,
      currentBid \in {null, Num(23), Num(62)} }

Impacts == {"positive", "negative", "neutral"}

ConfidenceCalls ==
  UNION { { [fn |-> "calculateConfidence",
             reasoning |-> [i \in 1 .. n |->
                              ReasoningFactor("Factor", impacts[i], "")]] :
             impacts \in [1 .. n -> Impacts] } : n \in 0 .. MaxReasoning }

ConsiderCalls ==
  { [fn |-> "shouldConsiderPlayer", player |-> player,
     teamState |-> DomainTeamState(budget, squad)] :
      player \in Candidates, budget \in {0, 60, 100}, squad \in DomainSquads }

\* Budgets below, at and above the floor of 20 and above the largest reserve
\* (14 * 20), for squads short of, at and beyond the minimum squad size.
BudgetCapCalls ==
  { [fn |-> "calculateBudgetCap", teamState |-> DomainTeamState(budget, squad)] :
      budget \in {0, 10, 20, 60, 300, 400}, squad \in DomainSquads }

\* The completed variant of AuctionState.  No case of the reducer returns it;
\* it is a value of the state type the reducer can be handed.
CompletedAuctionState(completedPlayerIds, teamStates, message) ==
  [ phase              |-> "completed",
    completedPlayerIds |-> completedPlayerIds,
    teams              |-> teamStates,
    message            |-> message ]

\* States of every phase for the reducer: an auction of WarProps before its
\* first round, in a round (without and with a bid, with time left and at 0),
\* after a sale, after a pass, and completed with both players auctioned.
ReducerStates ==
  LET idle    == createInitialState(WarProps.teams)
      p1      == WarProps.players[1]
      opened  == ReduceStartBidding(idle, StartBiddingAction(p1))
      raised  == ReducePlaceBid(opened, PlaceBidAction("t1", 25))
      sold    == SoldState(raised)
      unsold  == UnsoldState(opened, " - passed")
  IN  { idle, opened, raised,
        [opened EXCEPT !.timeRemaining = 0], [raised EXCEPT !.timeRemaining = 0],
        sold, unsold,
        CompletedAuctionState(<<"p1", "p2">>, sold.teams,
                              Message("Auction completed")) }

\* One action of every type, with the payloads a caller can supply.
ReducerActions ==
  { StartBiddingAction(WarProps.players[i]) : i \in DOMAIN WarProps.players }
  \cup { PlaceBidAction(teamId, amount) : teamId \in {"t1", "t2"}, amount \in {30, 90} }
  \cup { InvalidBidAction("Auction not active"), TimerTickAction, TimeExpiredAction,
         PlayerSoldAction, PlayerUnsoldAction, ResetToIdleAction }

ReducerCalls ==
  { [fn |-> "auctionReducer", state |-> s, action |-> action] :
      s \in ReducerStates, action \in ReducerActions }

DomainCalls ==
  ValidateCalls \cup MinimumCalls \cup RecommendCalls \cup ConfidenceCalls
  \cup ConsiderCalls \cup BudgetCapCalls \cup ReducerCalls

-----------------------------------------------------------------------------
(* The domain functions as a state machine: a call is drawn, then made.    *)

InitDomain ==
  /\ props = DomainProps
  /\ state = createInitialState(props.teams)
  /\ lastAction = "NONE"
  /\ call \in DomainCalls
  /\ result = null
  /\ rendered = state
  /\ expiry = FALSE
  /\ unrendered = 0

CallValidatePlayerAcquisition ==
  /\ call.fn = "validatePlayerAcquisition"
  /\ result = null
  /\ result' = validatePlayerAcquisition(call.teamState, call.player, call.bidAmount,
                                         players, DEFAULT_SQUAD_CONSTRAINTS)
  /\ UNCHANGED <<state, lastAction, props, call, page>>

CallValidateMinimumSquadRequirements ==
  /\ call.fn = "validateMinimumSquadRequirements"
  /\ result = null
  /\ result' = validateMinimumSquadRequirements(call.teamState, players,
                                                DEFAULT_SQUAD_CONSTRAINTS)
  /\ UNCHANGED <<state, lastAction, props, call, page>>

CallCalculateBidRecommendation ==
  /\ call.fn = "calculateBidRecommendation"
  /\ result = null
  /\ result' = calculateBidRecommendation(call.player, call.teamState, players,
                                          call.currentBid)
  /\ UNCHANGED <<state, lastAction, props, call, page>>

CallCalculateConfidence ==
  /\ call.fn = "calculateConfidence"
  /\ result = null
  /\ result' = [confidence |-> calculateConfidence(call.reasoning)]
  /\ UNCHANGED <<state, lastAction, props, call, page>>

CallShouldConsiderPlayer ==
  /\ call.fn = "shouldConsiderPlayer"
  /\ result = null
  /\ result' = shouldConsiderPlayer(call.player, call.teamState, players)
  /\ UNCHANGED <<state, lastAction, props, call, page>>

CallCalculateBudgetCap ==
  /\ call.fn = "calculateBudgetCap"
  /\ result = null
  /\ result' = [budgetCap |-> calculateBudgetCap(call.teamState)]
  /\ UNCHANGED <<state, lastAction, props, call, page>>

CallAuctionReducer ==
  /\ call.fn = "auctionReducer"
  /\ result = null
  /\ result' = [state |-> auctionReducer(call.state, call.action)]
  /\ UNCHANGED <<state, lastAction, props, call, page>>

NextDomain ==
  \/ CallValidatePlayerAcquisition
  \/ CallValidateMinimumSquadRequirements
  \/ CallCalculateBidRecommendation
  \/ CallCalculateConfidence
  \/ CallShouldConsiderPlayer
  \/ CallCalculateBudgetCap
  \/ CallAuctionReducer

SpecDomain == InitDomain /\ [][NextDomain]_vars

-----------------------------------------------------------------------------
(* Helpers for the properties *)

TeamState(s, teamId) == getTeamState(s.teams, teamId)

Max(a, b) == IF a >= b THEN a ELSE b

Min(a, b) == IF a <= b THEN a ELSE b

\* The catalog entry of a squad member (squad members are always catalog players).
RoleOf(playerId) == PlayerById(players, playerId).role

NationalityOf(playerId) == PlayerById(players, playerId).nationality

SquadIds(squad) == {squad[i].playerId : i \in DOMAIN squad}

-----------------------------------------------------------------------------
(* C1: budget invariant.  In every state reachable from createInitialState  *)
(* by any sequence of START_BIDDING, TIMER_TICK, TIME_EXPIRED, PLAYER_SOLD,  *)
(* PLAYER_UNSOLD, RESET_TO_IDLE and bids submitted through placeBid, every   *)
(* team's remainingBudget is >= 0.                                           *)
C1_BudgetNonNegative ==
  \A i \in DOMAIN state.teams : state.teams[i].remainingBudget >= 0

\* A team has spent its whole budget: the check was binding.
C1_Witness ==
  /\ state.phase = "sold"
  /\ \E i \in DOMAIN state.teams :
        /\ state.teams[i].teamId = state.winningBid.teamId
        /\ state.teams[i].remainingBudget = 0
        /\ Len(state.teams[i].squad) > 0

-----------------------------------------------------------------------------
-----------------------------------------------------------------------------
(* C3: out-of-phase events are inert.  START_BIDDING dispatched in any      *)
(* phase other than idle, and PLACE_BID, INVALID_BID, TIMER_TICK,           *)
(* TIME_EXPIRED, PLAYER_SOLD or PLAYER_UNSOLD dispatched in any phase other *)
(* than bidding, return the state unchanged (same phase, teams,             *)
(* completedPlayerIds, message).                                            *)
C3_OutOfPhaseInert ==
  /\ state.phase # "idle" =>
        \A i \in DOMAIN players :
           auctionReducer(state, StartBiddingAction(players[i])) = state
  /\ state.phase # "bidding" =>
        /\ \A teamId \in BidTeamIds, amount \in BidAmounts :
              auctionReducer(state, PlaceBidAction(teamId, amount)) = state
        /\ \A reason \in {"Auction not active", "Invalid bid"} :
              auctionReducer(state, InvalidBidAction(reason)) = state
        /\ auctionReducer(state, TimerTickAction) = state
        /\ auctionReducer(state, TimeExpiredAction) = state
        /\ auctionReducer(state, PlayerSoldAction) = state
        /\ auctionReducer(state, PlayerUnsoldAction) = state

\* The pass action was dispatched after the round had already ended in a sale
\* (and a player remains to be put up), and the state is still the sold state.
C3_Witness ==
  /\ state.phase = "sold"
  /\ lastAction = "PLAYER_UNSOLD"
  /\ PickablePlayers(state) # {}

-----------------------------------------------------------------------------
-----------------------------------------------------------------------------
(* C5: TIME_EXPIRED in a bidding state with a current bid {team, amount}    *)
(* yields phase sold in which the winning team's remainingBudget is reduced *)
(* by exactly amount, its squad gains exactly one AcquiredPlayer            *)
(* (currentPlayer.id, purchasePrice = amount) appended at the end, every    *)
(* other team's TeamState is unchanged, and completedPlayerIds is the       *)
(* previous list with the player id appended exactly once.                  *)
C5_SaleEffect(s, t) ==
  LET bid == s.currentBid
      pid == s.currentPlayer.id
  IN  /\ t.phase = "sold"
      /\ DOMAIN t.teams = DOMAIN s.teams
      /\ Cardinality({i \in DOMAIN s.teams : s.teams[i].teamId = bid.teamId}) = 1
      /\ \A i \in DOMAIN s.teams :
            IF s.teams[i].teamId = bid.teamId
            THEN /\ t.teams[i].teamId = s.teams[i].teamId
                 /\ t.teams[i].remainingBudget = s.teams[i].remainingBudget - bid.amount
                 /\ t.teams[i].squad =
                       s.teams[i].squad
                          \o << [playerId |-> pid, purchasePrice |-> bid.amount] >>
            ELSE t.teams[i] = s.teams[i]
      /\ t.completedPlayerIds = s.completedPlayerIds \o << pid >>

C5_ExpiryWithBidSells ==
  [][ ( /\ lastAction' = "TIME_EXPIRED"
        /\ state.phase = "bidding"
        /\ state.currentBid # null )
      => C5_SaleEffect(state, state') ]_vars

\* A sale by expiry has happened, after at least one earlier round.
C5_Witness ==
  /\ state.phase = "sold"
  /\ lastAction = "TIME_EXPIRED"
  /\ Len(state.completedPlayerIds) >= 2

-----------------------------------------------------------------------------
(* C6: TIME_EXPIRED in a bidding state with no current bid, and             *)
(* PLAYER_UNSOLD in a bidding state with no current bid, have the identical *)
(* effect: phase becomes unsold, every team's remainingBudget and squad are *)
(* unchanged, and the current player's id is appended to                    *)
(* completedPlayerIds.                                                      *)
C6_UnsoldEffect(s, t) ==
  /\ t.phase = "unsold"
  /\ t.teams = s.teams
  /\ t.completedPlayerIds = s.completedPlayerIds \o << s.currentPlayer.id >>
  /\ t.unsoldPlayer = s.currentPlayer

C6_NoBidEndsUnsold ==
  [][ ( /\ lastAction' \in {"TIME_EXPIRED", "PLAYER_UNSOLD"}
        /\ state.phase = "bidding"
        /\ state.currentBid = null )
      => C6_UnsoldEffect(state, state') ]_vars

\* A round has ended unsold by expiry (which only happens with no bid), after a
\* sale in an earlier round.
C6_Witness ==
  /\ state.phase = "unsold"
  /\ lastAction = "TIME_EXPIRED"
  /\ \E i \in DOMAIN state.teams : Len(state.teams[i].squad) > 0

-----------------------------------------------------------------------------
(* C7: RESET_TO_IDLE is accepted only from the round-terminal phases sold   *)
(* and unsold, where it returns to idle preserving completedPlayerIds and   *)
(* teams; dispatched in idle, bidding or completed it is an out-of-phase    *)
(* event and leaves the state unchanged (in particular it cannot abandon a  *)
(* round that is in bidding).  The status message is left out of the        *)
(* comparison in idle, so that the formula fails only where a round is      *)
(* abandoned.                                                               *)
C7_ResetOnlyFromRoundEnd ==
  [][ lastAction' = "RESET_TO_IDLE" =>
        IF state.phase \in {"sold", "unsold"}
        THEN /\ state'.phase = "idle"
             /\ state'.completedPlayerIds = state.completedPlayerIds
             /\ state'.teams = state.teams
        ELSE IF state.phase = "bidding"
        THEN state' = state
        ELSE /\ state'.phase = state.phase
             /\ state'.completedPlayerIds = state.completedPlayerIds
             /\ state'.teams = state.teams ]_vars

-----------------------------------------------------------------------------
(* C8 as claimed: explicit PLAYER_SOLD has the same effect as TIME_EXPIRED  *)
(* from every bidding state: with a current bid it transitions to sold and  *)
(* finalizes the purchase; with no current bid it transitions to unsold and *)
(* appends the player id to completedPlayerIds.                             *)
C8_SoldSameAsExpiry ==
  [][ ( /\ lastAction' = "PLAYER_SOLD"
        /\ state.phase = "bidding" )
      => IF state.currentBid # null
         THEN C5_SaleEffect(state, state')
         ELSE C6_UnsoldEffect(state, state') ]_vars

(* C8 as amended: with a current bid PLAYER_SOLD has the same effect as     *)
(* TIME_EXPIRED (sold, purchase finalized); with no current bid PLAYER_SOLD *)
(* leaves the state unchanged: the round stays in bidding and nothing is    *)
(* appended to completedPlayerIds.                                          *)
C8_SoldOnlyWithBid ==
  [][ ( /\ lastAction' = "PLAYER_SOLD"
        /\ state.phase = "bidding" )
      => IF state.currentBid # null
         THEN /\ C5_SaleEffect(state, state')
              /\ state' = auctionReducer(state, TimeExpiredAction)
         ELSE state' = state ]_vars

\* PLAYER_SOLD has just been dispatched in a bidding state that has no bid, and
\* the round is still in bidding.
C8_Witness ==
  /\ state.phase = "bidding"
  /\ lastAction = "PLAYER_SOLD"
  /\ state.currentBid = null
  /\ state.timeRemaining < 60

-----------------------------------------------------------------------------
(* C9: TIMER_TICK in a bidding state sets timeRemaining to                  *)
(* max(0, timeRemaining - 1) and changes nothing else: phase stays bidding  *)
(* (it never itself produces sold or unsold, even at 0), and currentPlayer, *)
(* currentBid, teams, completedPlayerIds and message are unchanged.         *)
C9_TickOnlyDecrements ==
  [][ ( /\ lastAction' = "TIMER_TICK"
        /\ state.phase = "bidding" )
      => /\ state'.phase = "bidding"
         /\ state'.timeRemaining = Max(0, state.timeRemaining - 1)
         /\ state'.currentPlayer = state.currentPlayer
         /\ state'.currentBid = state.currentBid
         /\ state'.teams = state.teams
         /\ state'.completedPlayerIds = state.completedPlayerIds
         /\ state'.message = state.message ]_vars

\* The timer has been ticked down to 0 with a bid standing, and the round is
\* still in bidding.
C9_Witness ==
  /\ state.phase = "bidding"
  /\ lastAction = "TIMER_TICK"
  /\ state.timeRemaining = 0
  /\ state.currentBid # null

-----------------------------------------------------------------------------
(* C10: a rejected bid disturbs nothing but the message.  INVALID_BID in a  *)
(* bidding state changes only message, and a bid submitted through placeBid *)
(* that validateBid rejects leaves phase, currentPlayer, currentBid,        *)
(* timeRemaining, teams and completedPlayerIds exactly as they were.        *)
C10_OnlyMessage(s, t) ==
  /\ t.phase = s.phase
  /\ t.currentPlayer = s.currentPlayer
  /\ t.currentBid = s.currentBid
  /\ t.timeRemaining = s.timeRemaining
  /\ t.teams = s.teams
  /\ t.completedPlayerIds = s.completedPlayerIds
  /\ DOMAIN t = DOMAIN s

C10_RejectedBidOnlyMessage ==
  state.phase = "bidding" =>
     /\ \A reason \in {"Auction not active", "Invalid bid"} :
           C10_OnlyMessage(state, auctionReducer(state, InvalidBidAction(reason)))
     /\ \A teamId \in BidTeamIds, amount \in BidAmounts :
           ~validateBid(state, teamId, amount, players).isValid =>
              C10_OnlyMessage(state,
                              auctionReducer(state, placeBid(state, teamId, amount)))

\* A bid has just been rejected while another bid stands and the timer runs.
C10_Witness ==
  /\ state.phase = "bidding"
  /\ lastAction = "INVALID_BID"
  /\ state.currentBid # null
  /\ state.timeRemaining < 60
  /\ state.timeRemaining > 0

-----------------------------------------------------------------------------
(* C11: a bid never exists without its player and never carries over       *)
(* between players.  START_BIDDING from idle produces a bidding state with  *)
(* the given player, timeRemaining = 60 and no currentBid, teams and        *)
(* completedPlayerIds unchanged; every reachable bidding state has a        *)
(* non-null currentPlayer; idle and completed states have no currentPlayer, *)
(* currentBid or timeRemaining field; and whenever a step puts a different  *)
(* player (or a first player) into bidding, the new state has no bid.       *)
C11_IdleFields == {"phase", "completedPlayerIds", "teams", "message"}

C11_StartFromIdle(s, player) ==
  LET t == auctionReducer(s, StartBiddingAction(player))
  IN  /\ t.phase = "bidding"
      /\ t.currentPlayer = player
      /\ t.timeRemaining = 60
      /\ t.currentBid = null
      /\ t.teams = s.teams
      /\ t.completedPlayerIds = s.completedPlayerIds

C11_BidNeedsItsPlayer ==
  /\ [] ( /\ state.phase = "bidding" =>
               /\ "currentPlayer" \in DOMAIN state
               /\ state.currentPlayer # null
          /\ state.phase \in {"idle", "completed"} =>
               /\ DOMAIN state = C11_IdleFields
               /\ \A i \in DOMAIN players : C11_StartFromIdle(state, players[i]) )
  /\ [][ ( /\ state'.phase = "bidding"
           /\ \/ state.phase # "bidding"
              \/ state.currentPlayer # state'.currentPlayer )
         => state'.currentBid = null ]_vars

\* A second round opens after a first one that ended in a sale.
C11_Witness ==
  /\ state.phase = "bidding"
  /\ lastAction = "START_BIDDING"
  /\ state.currentBid = null
  /\ state.timeRemaining = 60
  /\ Len(state.completedPlayerIds) >= 1
  /\ \E i \in DOMAIN state.teams : Len(state.teams[i].squad) >= 1

-----------------------------------------------------------------------------
(* C12: minimum valid bid.  In a bidding state with no current bid the      *)
(* minimum valid bid (getMinimumValidBid, and getMinBid of the hook) is the *)
(* current player's basePrice; with a current bid it is                     *)
(* currentBid.amount + 5; and after any bid of amount a that placeBid       *)
(* accepts, the minimum is a + 5.                                           *)
C12_MinimumValidBid ==
  state.phase = "bidding" =>
     /\ state.currentBid = null =>
           /\ getMinimumValidBid(state) = state.currentPlayer.basePrice
           /\ getMinBid(state) = state.currentPlayer.basePrice
     /\ state.currentBid # null =>
           /\ getMinimumValidBid(state) = state.currentBid.amount + 5
           /\ getMinBid(state) = state.currentBid.amount + 5
     /\ \A teamId \in BidTeamIds, amount \in BidAmounts :
           LET action == placeBid(state, teamId, amount)
           IN  action.type = "PLACE_BID" =>
                  getMinBid(auctionReducer(state, action)) = amount + 5

\* A raise has been accepted: the minimum is two increments above the base.
C12_Witness ==
  /\ state.phase = "bidding"
  /\ lastAction = "PLACE_BID"
  /\ state.currentBid # null
  /\ getMinBid(state) >= state.currentPlayer.basePrice + 10

-----------------------------------------------------------------------------
(* Helpers for the properties of the domain functions *)

\* Squad members of a role, and overseas squad members, counted from the catalog.
RoleCount(squad, role) ==
  Cardinality({i \in DOMAIN squad : RoleOf(squad[i].playerId) = role})

OverseasCount(squad) ==
  Cardinality({i \in DOMAIN squad : NationalityOf(squad[i].playerId) = "overseas"})

CodesOf(validation) ==
  [i \in DOMAIN ErrorsOf(validation) |-> ErrorsOf(validation)[i].code]

\* The flagged entries of a list, in order.
Flagged(entries, flags) ==
  LET picked == SelectSeq([i \in DOMAIN entries |-> <<entries[i], flags[i]>>],
                          LAMBDA e : e[2])
  IN  [i \in DOMAIN picked |-> picked[i][1]]

Made(fn) == call # null /\ call.fn = fn /\ result # null

-----------------------------------------------------------------------------
(* C13: validatePlayerAcquisition is exhaustive, not fail-fast.  For every  *)
(* team state, player and bid the violations returned are exactly the       *)
(* failing checks among budget (bid > remainingBudget, with shortfall =     *)
(* bid - remainingBudget), squad size (length >= 25), role limit (role      *)
(* count >= role maximum) and overseas limit (overseas candidate and        *)
(* overseas count >= 8; never for a domestic candidate), in that order, and *)
(* the result is valid exactly when none fails.                             *)
C13_ExhaustiveValidation ==
  Made("validatePlayerAcquisition") =>
     LET teamState     == call.teamState
         budgetFails   == call.bidAmount > teamState.remainingBudget
         sizeFails     == Len(teamState.squad) >= 25
         roleFails     ==
           RoleCount(teamState.squad, call.player.role)
              >= DEFAULT_SQUAD_CONSTRAINTS.roleConstraints[call.player.role].max
         overseasFails == /\ call.player.nationality = "overseas"
                          /\ OverseasCount(teamState.squad) >= 8
         expected      ==
           Flagged(<< "INSUFFICIENT_BUDGET", "SQUAD_FULL", "ROLE_LIMIT_EXCEEDED",
                      "OVERSEAS_LIMIT_EXCEEDED" >>,
                   << budgetFails, sizeFails, roleFails, overseasFails >>)
     IN  /\ CodesOf(result) = expected
         /\ result.isValid <=> expected = <<>>
         /\ budgetFails =>
               result.errors[1].shortfall
                  = call.bidAmount - teamState.remainingBudget
         /\ ( /\ teamState.remainingBudget = 100
              /\ call.bidAmount = 150
              /\ ~sizeFails /\ ~roleFails /\ ~overseasFails ) =>
               /\ Len(result.errors) = 1
               /\ result.errors[1].shortfall = 50

\* All four checks fail at once and all four are reported.
C13_Witness ==
  /\ Made("validatePlayerAcquisition")
  /\ ~result.isValid
  /\ Len(result.errors) = 4

-----------------------------------------------------------------------------
(* C14: validateBid(state, teamId, amount) is valid exactly when teamId is  *)
(* a team of the auction, amount >= the minimum valid bid (base price, or   *)
(* current bid + 5) and the acquisition checks pass for that team (amount   *)
(* within budget, squad below 25, role below its maximum, overseas below 8  *)
(* for an overseas player).  For a team of the auction a bid below the      *)
(* minimum is reported as the single error BID_TOO_LOW, and an unknown team *)
(* as a single structured error; the result is always a validation record.  *)
C14_Minimum(s) ==
  IF s.currentBid = null THEN s.currentPlayer.basePrice ELSE s.currentBid.amount + 5

C14_AcquisitionPasses(s, teamId, amount) ==
  LET teamState == TeamState(s, teamId)
  IN  /\ amount <= teamState.remainingBudget
      /\ Len(teamState.squad) < 25
      /\ RoleCount(teamState.squad, s.currentPlayer.role)
            < DEFAULT_SQUAD_CONSTRAINTS.roleConstraints[s.currentPlayer.role].max
      /\ s.currentPlayer.nationality = "overseas" =>
            OverseasCount(teamState.squad) < 8

-----------------------------------------------------------------------------
(* C15: validateMinimumSquadRequirements returns valid exactly when the     *)
(* squad has at least minSquadSize (15) players and, for every role, at     *)
(* least that role's minimum (batter 3, bowler 3, all-rounder 2,            *)
(* wicket-keeper 1); otherwise it reports one violation for the size        *)
(* shortfall, if any, and one for each role below its minimum.              *)
C15_RolesBelowMinimum(squad) ==
  {role \in PlayerRole :
     RoleCount(squad, role) < DEFAULT_SQUAD_CONSTRAINTS.roleConstraints[role].min}

C15_MinimumSquad ==
  Made("validateMinimumSquadRequirements") =>
     LET squad     == call.teamState.squad
         tooSmall  == Len(squad) < 15
         short     == C15_RolesBelowMinimum(squad)
         errors    == ErrorsOf(result)
         sizeErrs  == {i \in DOMAIN errors : "minSize" \in DOMAIN errors[i]}
         roleErrs  == {i \in DOMAIN errors : "role" \in DOMAIN errors[i]}
     IN  /\ result.isValid <=> (~tooSmall /\ short = {})
         /\ Cardinality(sizeErrs) = (IF tooSmall THEN 1 ELSE 0)
         /\ \A i \in sizeErrs : i = 1 /\ errors[i].currentSize = Len(squad)
         /\ sizeErrs \cup roleErrs = DOMAIN errors
         /\ {errors[i].role : i \in roleErrs} = short
         /\ Cardinality(roleErrs) = Cardinality(short)

\* The smallest squad that passes: exactly fifteen players, every minimum met.
C15_Witness ==
  /\ Made("validateMinimumSquadRequirements")
  /\ result.isValid
  /\ Len(call.teamState.squad) = 15

-----------------------------------------------------------------------------
(* C19: confidence classification.  For every reasoning list the confidence *)
(* is low when it has at least 2 negative-impact factors, high when it has  *)
(* at least 2 positive-impact factors and no negative one, and medium in    *)
(* every other case; a recommendation's confidence is that of its own       *)
(* reasoning list.                                                          *)
C19_Classify(reasoning) ==
  LET positives == {i \in DOMAIN reasoning : reasoning[i].impact = "positive"}
      negatives == {i \in DOMAIN reasoning : reasoning[i].impact = "negative"}
  IN  IF Cardinality(negatives) >= 2 THEN "low"
      ELSE IF Cardinality(positives) >= 2 /\ negatives = {} THEN "high"
      ELSE "medium"

C19_Confidence ==
  /\ Made("calculateConfidence") =>
        result.confidence = C19_Classify(call.reasoning)
  /\ Made("calculateBidRecommendation") =>
        result.confidence = C19_Classify(result.reasoning)

\* Two positive factors and one negative: medium, neither high nor low.
C19_Witness ==
  /\ Made("calculateConfidence")
  /\ result.confidence = "medium"
  /\ Cardinality({i \in DOMAIN call.reasoning :
                     call.reasoning[i].impact = "positive"}) >= 2
  /\ Cardinality({i \in DOMAIN call.reasoning :
                     call.reasoning[i].impact = "negative"}) = 1

-----------------------------------------------------------------------------
(* C16: recommendation monotonicity.  For two players identical except that *)
(* the second has a higher battingAverage, and the same team state, catalog *)
(* and currentBid (absent or present), the recommendedMaxBid for the second *)
(* is >= the one for the first.  Stated for the call made as the second     *)
(* player, against every lower battingAverage.                              *)
C16_LowerAverages(player) ==
  IF player.stats.battingAverage = null THEN {}
  ELSE {Num(b) : b \in {b \in 0 .. 60 : b < player.stats.battingAverage[1]}}

C16_Monotonic ==
  Made("calculateBidRecommendation") =>
     \A lower \in C16_LowerAverages(call.player) :
        LET first == [call.player EXCEPT !.stats.battingAverage = lower]
        IN  calculateBidRecommendation(first, call.teamState, players,
                                       call.currentBid).recommendedMaxBid
               <= result.recommendedMaxBid

-----------------------------------------------------------------------------
(* C17: overseas veto.  For an overseas candidate the overseas multiplier   *)
(* is 0 when the team has no overseas slot left (overseas count >= 8), 0.8  *)
(* with 1 or 2 slots left and 1.0 otherwise; and with no slot left          *)
(* calculateBidRecommendation returns recommendedMaxBid = 0 for every       *)
(* currentBid, absent or present.                                           *)
C17_OverseasVeto ==
  ( /\ Made("calculateBidRecommendation")
    /\ call.player.nationality = "overseas" ) =>
     LET slots == 8 - OverseasCount(call.teamState.squad)
     IN  /\ calculateOverseasMultiplier(call.teamState, players)
               = (IF slots <= 0 THEN 0 ELSE IF slots <= 2 THEN 80 ELSE 100)
         /\ slots <= 0 => result.recommendedMaxBid = 0

-----------------------------------------------------------------------------
(* C18: current-bid floor.  Whenever a current bid is supplied the returned *)
(* recommendedMaxBid is strictly greater than it; when the floor was        *)
(* applied the result is currentBid + 5 and the last reasoning entry is a   *)
(* neutral 'Current Bid' entry.                                             *)
C18_CurrentBidFloor ==
  ( /\ Made("calculateBidRecommendation")
    /\ call.currentBid # null ) =>
     LET last == result.reasoning[Len(result.reasoning)]
     IN  /\ result.recommendedMaxBid > call.currentBid[1]
         /\ last.factor = "Current Bid" =>
               /\ last.impact = "neutral"
               /\ result.recommendedMaxBid = call.currentBid[1] + 5

-----------------------------------------------------------------------------
(* C20: the shouldConsiderPlayer gate.  It returns shouldBid = false when   *)
(* the team's count for the candidate's role is at or above that role's     *)
(* maximum, when the candidate is overseas and no overseas slot is left,    *)
(* and when remainingBudget < basePrice, and shouldBid = true in every      *)
(* other case.  C20_RoleMaxAlwaysCited is the claim as made: whenever the   *)
(* role is at its maximum the reason cites the role maximum.                *)
C20_RoleAtMax ==
  RoleCount(call.teamState.squad, call.player.role)
     >= DEFAULT_SQUAD_CONSTRAINTS.roleConstraints[call.player.role].max

C20_NoOverseasSlot ==
  /\ call.player.nationality = "overseas"
  /\ OverseasCount(call.teamState.squad) >= 8

C20_BelowBasePrice == call.teamState.remainingBudget < call.player.basePrice

C20_RoleReason == "Already have maximum " \o call.player.role \o "s"

C20_Gate ==
  result.shouldBid <=> ~(C20_RoleAtMax \/ C20_NoOverseasSlot \/ C20_BelowBasePrice)

C20_RoleMaxAlwaysCited ==
  Made("shouldConsiderPlayer") =>
     /\ C20_Gate
     /\ C20_RoleAtMax => result.reason = C20_RoleReason

(* C20 as amended: the reason is that of the first failing check in the     *)
(* order overseas slot, role maximum, base price; so a role at its maximum  *)
(* is cited unless the candidate is overseas with no overseas slot left,    *)
(* in which case the reason is the missing overseas slot.                   *)
C20_FirstFailingReason ==
  Made("shouldConsiderPlayer") =>
     /\ C20_Gate
     /\ C20_NoOverseasSlot => result.reason = "No overseas slots available"
     /\ (C20_RoleAtMax /\ ~C20_NoOverseasSlot) => result.reason = C20_RoleReason
     /\ (C20_BelowBasePrice /\ ~C20_RoleAtMax /\ ~C20_NoOverseasSlot) =>
           result.reason = "Insufficient budget for base price"

\* An overseas batter offered to a team holding eight overseas batters: both
\* the role maximum and the overseas limit are reached.
C20_Witness ==
  /\ Made("shouldConsiderPlayer")
  /\ C20_RoleAtMax
  /\ C20_NoOverseasSlot
  /\ ~result.shouldBid
  /\ call.teamState.remainingBudget >= call.player.basePrice

-----------------------------------------------------------------------------
(* C23: the recommendation never exceeds what the team can pay.  For every  *)
(* player, team state and currentBid, calculateBidRecommendation returns    *)
(* recommendedMaxBid <= teamState.remainingBudget.                          *)
C23_WithinBudget ==
  Made("calculateBidRecommendation") =>
     result.recommendedMaxBid <= call.teamState.remainingBudget

-----------------------------------------------------------------------------
(* C29: the budget cap.  C29_CapFormula is the claim as made: for every     *)
(* squad size and remaining budget calculateBudgetCap returns               *)
(* max(20, remainingBudget - reserve), with reserve =                       *)
(* max(0, (playersNeeded - 1) * 20) and playersNeeded =                     *)
(* max(0, 15 - squad length); and the 'Budget Constraint' reasoning entry   *)
(* of a recommendation is negative exactly when the cap is below the        *)
(* running estimate, and neutral otherwise.                                 *)
C29_PlayersNeeded(teamState) == Max(0, 15 - Len(teamState.squad))

C29_Reserve(teamState) == Max(0, (C29_PlayersNeeded(teamState) - 1) * 20)

\* The running estimate when the budget stage is reached, in millionths.
C29_Estimate ==
  call.player.basePrice * calculateQualityMultiplier(call.player)
     * calculateRoleScarcity(call.player.role, call.teamState, players)
     * (IF call.player.nationality = "overseas"
        THEN calculateOverseasMultiplier(call.teamState, players) ELSE HUNDRED)

C29_BudgetEntry ==
  LET entries == SelectSeq(result.reasoning,
                           LAMBDA r : r.factor = "Budget Constraint")
  IN  /\ Len(entries) = 1
      /\ entries[1].impact =
            (IF calculateBudgetCap(call.teamState) * UNIT < C29_Estimate
             THEN "negative" ELSE "neutral")

C29_CapFormula ==
  /\ Made("calculateBudgetCap") =>
        result.budgetCap
           = Max(20, call.teamState.remainingBudget - C29_Reserve(call.teamState))
  /\ Made("calculateBidRecommendation") => C29_BudgetEntry

(* C29 as amended: the floor of 20 applies only while the squad is short of *)
(* the minimum size (playersNeeded > 0); a team whose squad has reached 15  *)
(* gets its remainingBudget as the cap, also when that is below 20.         *)
C29_CapFormulaWhileShort ==
  /\ Made("calculateBudgetCap") =>
        result.budgetCap
           = (IF C29_PlayersNeeded(call.teamState) > 0
              THEN Max(20, call.teamState.remainingBudget
                              - C29_Reserve(call.teamState))
              ELSE call.teamState.remainingBudget)
  /\ Made("calculateBidRecommendation") => C29_BudgetEntry

\* A team five players short with 300 left: 80 is reserved and the cap is 220.
C29_Witness ==
  /\ Made("calculateBudgetCap")
  /\ Len(call.teamState.squad) = 10
  /\ call.teamState.remainingBudget = 300
  /\ result.budgetCap = 220

-----------------------------------------------------------------------------
(* C30: the cheap gate agrees with validation.  For every team state the    *)
(* auction can reach (squad members in the catalog, squad within the size,  *)
(* role and overseas limits, budget not negative) and every candidate, if   *)
(* shouldConsiderPlayer returns shouldBid = true then                       *)
(* validatePlayerAcquisition at bid = basePrice returns valid, although the *)
(* gate makes no squad-size check: a squad of 25 within the role maxima     *)
(* (8 + 8 + 6 + 3) has every role at its maximum.                           *)
C30_Reachable(teamState) ==
  /\ teamState.remainingBudget >= 0
  /\ Len(teamState.squad) <= DEFAULT_SQUAD_CONSTRAINTS.maxSquadSize
  /\ OverseasCount(teamState.squad) <= DEFAULT_SQUAD_CONSTRAINTS.maxOverseasPlayers
  /\ \A role \in PlayerRole :
        RoleCount(teamState.squad, role)
           <= DEFAULT_SQUAD_CONSTRAINTS.roleConstraints[role].max

C30_GateAgreesWithValidation ==
  ( /\ Made("shouldConsiderPlayer")
    /\ C30_Reachable(call.teamState)
    /\ result.shouldBid ) =>
     validatePlayerAcquisition(call.teamState, call.player, call.player.basePrice,
                               players, DEFAULT_SQUAD_CONSTRAINTS).isValid

\* A squad one short of the size limit with room in the candidate's role:
\* the gate lets the candidate through and validation accepts the base price.
C30_Witness ==
  /\ Made("shouldConsiderPlayer")
  /\ C30_Reachable(call.teamState)
  /\ Len(call.teamState.squad) = 24
  /\ result.shouldBid
  /\ validatePlayerAcquisition(call.teamState, call.player, call.player.basePrice,
                               players, DEFAULT_SQUAD_CONSTRAINTS).isValid

-----------------------------------------------------------------------------
(* C27: a standing bid is never discarded.  The unsold phase is entered     *)
(* only from a bidding state whose currentBid is absent, so a round left    *)
(* with a bid standing is left for sold, with the player sold to the team   *)
(* holding the current bid.                                                 *)
C27_StandingBidNeverDiscarded ==
  [][ /\ (state'.phase = "unsold" /\ state.phase # "unsold") =>
            (state.phase = "bidding" /\ state.currentBid = null)
      /\ (state.phase = "bidding" /\ state'.phase \in {"sold", "unsold"}
             /\ state.currentBid # null) =>
            /\ state'.phase = "sold"
            /\ state'.winningBid = state.currentBid ]_vars

-----------------------------------------------------------------------------
(* C28: budget conservation.  In every reachable state, for every team,     *)
(* remainingBudget plus the sum of purchasePrice over its squad equals the  *)
(* team's starting budget; the purchasePrice recorded at a sale is the      *)
(* winning bid's amount; and from one state to the next no team's           *)
(* remainingBudget increases and no squad entry is removed or altered.      *)
RECURSIVE C28_SumPrices(_)
C28_SumPrices(squad) ==
  IF squad = <<>> THEN 0
  ELSE squad[1].purchasePrice + C28_SumPrices(Tail(squad))

C28_Conserved(s) ==
  \A i \in DOMAIN s.teams :
     /\ s.teams[i].teamId = teams[i].id
     /\ s.teams[i].remainingBudget + C28_SumPrices(s.teams[i].squad)
           = teams[i].budget

\* Every squad is extended at its end or unchanged, and no budget grows.
C28_OnlyGrows(s, t) ==
  /\ DOMAIN t.teams = DOMAIN s.teams
  /\ \A i \in DOMAIN s.teams :
        /\ t.teams[i].remainingBudget <= s.teams[i].remainingBudget
        /\ Len(t.teams[i].squad) >= Len(s.teams[i].squad)
        /\ SubSeq(t.teams[i].squad, 1, Len(s.teams[i].squad)) = s.teams[i].squad

\* On entering sold: the winner's newest squad entry is the sold player at the
\* winning bid's amount.
C28_PriceIsWinningBid(s, t) ==
  (s.phase = "bidding" /\ t.phase = "sold") =>
     LET squad == TeamState(t, t.winningBid.teamId).squad
     IN  /\ t.winningBid = s.currentBid
         /\ squad # <<>>
         /\ squad[Len(squad)] = [playerId      |-> t.soldPlayer.id,
                                 purchasePrice |-> t.winningBid.amount]

C28_BudgetConservation ==
  /\ [] C28_Conserved(state)
  /\ [][ C28_OnlyGrows(state, state') /\ C28_PriceIsWinningBid(state, state') ]_vars

\* Both players of a catalog sold, to two different prices.
C28_Witness ==
  /\ state.phase = "sold"
  /\ \E i \in DOMAIN state.teams :
        /\ Len(state.teams[i].squad) = 2
        /\ state.teams[i].squad[1].purchasePrice
              # state.teams[i].squad[2].purchasePrice
        /\ state.teams[i].remainingBudget < teams[i].budget

-----------------------------------------------------------------------------
-----------------------------------------------------------------------------
(* C21: each player completes at most one round.  For all sequences of      *)
(* events, completedPlayerIds is a set (no player id occurs in it twice)    *)
(* and no player id occurs in more than one squad entry across all teams.   *)
C21_SquadEntries(s) ==
  {<<i, j>> \in (DOMAIN s.teams) \X (1 .. MaxRounds) : j \in DOMAIN s.teams[i].squad}

C21_AtMostOneRound ==
  /\ \A i, j \in DOMAIN state.completedPlayerIds :
        state.completedPlayerIds[i] = state.completedPlayerIds[j] => i = j
  /\ \A e, f \in C21_SquadEntries(state) :
        state.teams[e[1]].squad[e[2]].playerId
           = state.teams[f[1]].squad[f[2]].playerId => e = f

-----------------------------------------------------------------------------
(* The page with its scheduling: a render follows every dispatch, the       *)
(* effects of a render run, and the interval keeps firing while the         *)
(* rendered phase is bidding.  The user is not obliged to act.              *)
FairPage ==
  /\ WF_vars(Render)
  /\ WF_vars(ExpirationEffect)
  /\ WF_vars(IntervalTick)

SpecPageLive == SpecPage /\ FairPage

-----------------------------------------------------------------------------
(* C24: every round terminates.  With the countdown driver delivering       *)
(* TIMER_TICK while the phase is bidding and TIME_EXPIRED once              *)
(* timeRemaining is 0 (weak fairness on the driver), and bids admitted only *)
(* through validateBid, every bidding state is eventually followed by sold  *)
(* or unsold.                                                               *)
C24_RoundTerminates ==
  (state.phase = "bidding") ~> (state.phase \in {"sold", "unsold"})

\* A round ended by the driver after a raise: the bid extended the countdown
\* and the expiration effect sold the player at 0.
C24_Witness ==
  /\ state.phase = "sold"
  /\ lastAction = "TIME_EXPIRED"
  /\ state.winningBid.amount >= 20
  /\ Len(state.completedPlayerIds) = 2

-----------------------------------------------------------------------------
(* C25: expiry takes effect only at zero.  In the composition of the        *)
(* countdown driver, user bids and the reducer, a TIME_EXPIRED event moves  *)
(* the phase from bidding to sold or unsold only in a state whose           *)
(* timeRemaining is 0, also when a PLACE_BID is processed between the       *)
(* driver observing timeRemaining = 0 and its TIME_EXPIRED being processed. *)
C25_ExpiryOnlyAtZero ==
  [][ ( /\ lastAction' = "TIME_EXPIRED"
        /\ expiry /\ ~expiry'
        /\ state.phase = "bidding"
        /\ state'.phase \in {"sold", "unsold"} ) =>
         state.timeRemaining = 0 ]_vars

-----------------------------------------------------------------------------
(* C26: bids strictly climb within a round.  The first accepted bid is >=   *)
(* the player's base price and every later accepted bid is >= the           *)
(* previously accepted bid + 5, also when two bids are submitted through    *)
(* placeBid before the state produced by the first one has been rendered;   *)
(* so the winningBid recorded at a sale is the highest bid accepted in the  *)
(* round.  Stated on the step that applies PLACE_BID.                       *)
C26_BidsClimb ==
  [][ ( /\ lastAction' = "PLACE_BID"
        /\ unrendered' = unrendered + 1
        /\ state.phase = "bidding" ) =>
         /\ state'.currentBid # null
         /\ state'.currentBid.amount
               >= (IF state.currentBid = null THEN state.currentPlayer.basePrice
                   ELSE state.currentBid.amount + BID_INCREMENT_MIN) ]_vars

====
